---- MODULE Spec2Model ----
(***************************************************************************)
(* A model of goit-pycore-hw-08.py: the console contact manager.           *)
(*                                                                         *)
(* Python strings are sequences of one-character strings, so that len(),   *)
(* str.isdigit(), strptime() and strftime() are computed character by      *)
(* character.  A Python call that may raise is an operator that yields an  *)
(* outcome record [raised, value, ...]: raised = TRUE carries str(e) in    *)
(* value.  Objects are records of their attributes; no object of the       *)
(* program is aliased, so values stand for references.                     *)
(***************************************************************************)
EXTENDS Integers, Sequences, FiniteSets, TLC

VARIABLES book, store, pc, out

vars == <<book, store, pc, out>>

(***************************************************************************)
(* Bounds of the model                                                     *)
(***************************************************************************)
\* No Record is given more phones than this by the modelled runs.
MaxPhones == 2

(***************************************************************************)
(* Strings                                                                 *)
(***************************************************************************)
DigitChars == <<"0", "1", "2", "3", "4", "5", "6", "7", "8", "9">>

Digits == {DigitChars[i] : i \in 1..Len(DigitChars)}

DigitVal(c) == (CHOOSE i \in 1..Len(DigitChars) : DigitChars[i] = c) - 1

\* str.isdigit(): a non-empty string of digits only
isdigit(s) == Len(s) > 0 /\ \A i \in 1..Len(s) : s[i] \in Digits

\* a message: the text of an f-string and the values interpolated into it
Msg(text, args) == [text |-> text, args |-> args]

\* the outcome of a call that returned v / that raised an exception e
Return(v) == [raised |-> FALSE, value |-> v]

Raise(e) == [raised |-> TRUE, value |-> e]

\* Python's None, as an object with no value attribute of its own
None == [none |-> TRUE]

(***************************************************************************)
(* Fields                                                                  *)
(***************************************************************************)
\* Field.__init__
Field(value) == [value |-> value]

\* Name.__init__
Name(value) ==
    IF Len(value) < 3
    THEN Raise(Msg("Name was not added. It must be at least 3 characters long.", <<value>>))
    ELSE Return(Field(value))

\* Phone.__init__
Phone(value) ==
    IF ~(isdigit(value) /\ Len(value) = 10)
    THEN Raise(Msg("Phone number was not added. It must be 10 digits", <<value>>))
    ELSE Return(Field(value))

(***************************************************************************)
(* datetime.date                                                           *)
(***************************************************************************)
IsLeap(y) == (y % 4 = 0 /\ y % 100 # 0) \/ y % 400 = 0

DaysInMonth(y, m) ==
    IF m = 2 THEN (IF IsLeap(y) THEN 29 ELSE 28)
    ELSE IF m \in {4, 6, 9, 11} THEN 30 ELSE 31

\* the days of year y in the months before m
RECURSIVE DaysBeforeMonth(_, _)
DaysBeforeMonth(y, m) ==
    IF m <= 1 THEN 0 ELSE DaysBeforeMonth(y, m - 1) + DaysInMonth(y, m - 1)

\* the days in the years before y
DaysBeforeYear(y) ==
    (y - 1) * 365 + (y - 1) \div 4 - (y - 1) \div 100 + (y - 1) \div 400

\* date.toordinal(): 1 for 0001-01-01
ToOrdinal(d) == DaysBeforeYear(d.year) + DaysBeforeMonth(d.year, d.month) + d.day

\* date(year, month, day): ValueError unless it is a day of the calendar
Date(y, m, d) ==
    IF y < 1 \/ y > 9999 THEN Raise(Msg("year is out of range", <<>>))
    ELSE IF m < 1 \/ m > 12 THEN Raise(Msg("month must be in 1..12", <<>>))
    ELSE IF d < 1 \/ d > DaysInMonth(y, m)
         THEN Raise(Msg("day is out of range for month", <<>>))
    ELSE Return([year |-> y, month |-> m, day |-> d])

\* date.replace(year=y)
ReplaceYear(d, y) == Date(y, d.month, d.day)

\* (a - b).days
DaysBetween(a, b) == ToOrdinal(a) - ToOrdinal(b)

\* the value of a string of digits
RECURSIVE IntOf(_)
IntOf(s) ==
    IF Len(s) = 0 THEN 0
    ELSE 10 * IntOf(SubSeq(s, 1, Len(s) - 1)) + DigitVal(s[Len(s)])

\* s.split(sep) for a one-character separator
RECURSIVE SplitOn(_, _)
SplitOn(s, sep) ==
    IF \A i \in 1..Len(s) : s[i] # sep THEN <<s>>
    ELSE LET i == CHOOSE k \in 1..Len(s) :
                      s[k] = sep /\ \A j \in 1..(k - 1) : s[j] # sep
         IN  <<SubSeq(s, 1, i - 1)>> \o SplitOn(SubSeq(s, i + 1, Len(s)), sep)

\* strptime's %d: 3[0-1] | [1-2]\d | 0[1-9] | [1-9]
MatchesDay(f) ==
    \/ Len(f) = 2 /\ f[1] = "3" /\ f[2] \in {"0", "1"}
    \/ Len(f) = 2 /\ f[1] \in {"1", "2"} /\ f[2] \in Digits
    \/ Len(f) = 2 /\ f[1] = "0" /\ f[2] \in Digits \ {"0"}
    \/ Len(f) = 1 /\ f[1] \in Digits \ {"0"}

\* strptime's %m: 1[0-2] | 0[1-9] | [1-9]
MatchesMonth(f) ==
    \/ Len(f) = 2 /\ f[1] = "1" /\ f[2] \in {"0", "1", "2"}
    \/ Len(f) = 2 /\ f[1] = "0" /\ f[2] \in Digits \ {"0"}
    \/ Len(f) = 1 /\ f[1] \in Digits \ {"0"}

\* strptime's %Y: \d\d\d\d
MatchesYear(f) == Len(f) = 4 /\ isdigit(f)

\* datetime.strptime(value, "%d.%m.%Y").date()
strptime(value) ==
    LET f == SplitOn(value, ".") IN
    IF Len(f) # 3 \/ ~MatchesDay(f[1]) \/ ~MatchesMonth(f[2]) \/ ~MatchesYear(f[3])
    THEN Raise(Msg("time data does not match format", <<value>>))
    ELSE Date(IntOf(f[3]), IntOf(f[2]), IntOf(f[1]))

\* n as a decimal string of at least w digits, zero-padded
RECURSIVE Pad(_, _)
Pad(n, w) ==
    IF w <= 1 /\ n < 10 THEN <<DigitChars[n + 1]>>
    ELSE Pad(n \div 10, w - 1) \o <<DigitChars[(n % 10) + 1]>>

\* date.strftime("%d.%m.%Y")
strftime(d) == Pad(d.day, 2) \o <<".">> \o Pad(d.month, 2) \o <<".">> \o Pad(d.year, 4)

\* Birthday.__init__
Birthday(value) ==
    LET parsed_date == strptime(value) IN
    IF parsed_date.raised
    THEN Raise(Msg("Invalid date format. Use DD.MM.YYYY", <<>>))
    ELSE Return(Field(parsed_date.value))

\* Birthday.__str__
BirthdayStr(b) == strftime(b.value)

(***************************************************************************)
(* Record                                                                  *)
(*                                                                         *)
(* A method's outcome: raised and value as above, self the Record as the   *)
(* call leaves it, printed the lines the method itself prints.             *)
(***************************************************************************)
MethodReturn(v, self, printed) ==
    [raised |-> FALSE, value |-> v, self |-> self, printed |-> printed]

MethodRaise(e, self) ==
    [raised |-> TRUE, value |-> e, self |-> self, printed |-> <<>>]

\* Record.__init__
Record(name) ==
    LET n == Name(name) IN
    IF n.raised THEN n
    ELSE Return([name |-> n.value, phones |-> <<>>, birthday |-> None])

\* the semicolon-joined phone values: '; '.join(p.value for p in phones)
RECURSIVE JoinPhones(_)
JoinPhones(phones) ==
    IF Len(phones) = 0 THEN <<>>
    ELSE IF Len(phones) = 1 THEN phones[1].value
    ELSE phones[1].value \o <<";", " ">> \o JoinPhones(Tail(phones))

\* Record.__str__
RecordStr(self) ==
    IF self.birthday # None
    THEN Msg("Contact name: , phones: , birthday: ",
             <<self.name.value, JoinPhones(self.phones), BirthdayStr(self.birthday)>>)
    ELSE Msg("Contact name: , phones: ", <<self.name.value, JoinPhones(self.phones)>>)

\* Record.add_phone
Record_add_phone(self, contact_number) ==
    LET p == Phone(contact_number) IN
    IF p.raised THEN MethodRaise(p.value, self)
    ELSE MethodReturn(None, [self EXCEPT !.phones = Append(@, p.value)], <<>>)

\* the positions of the phones whose value is number
Matches(self, number) == {i \in 1..Len(self.phones) : self.phones[i].value = number}

\* the first of a non-empty set of positions
First(S) == CHOOSE i \in S : \A j \in S : i <= j

\* Record.edit_phone
Record_edit_phone(self, old_number, new_number) ==
    LET matches == Matches(self, old_number) IN
    IF matches # {}
    THEN MethodReturn(None,
             [self EXCEPT !.phones[First(matches)].value = new_number], <<>>)
    ELSE MethodReturn(None, self, <<Msg("Phone not found", <<old_number>>)>>)

\* Record.find_phone
Record_find_phone(self, contact_number) ==
    LET found_phones == Matches(self, contact_number) IN
    IF found_phones # {} THEN self.phones[First(found_phones)].value ELSE None

\* seq without its i-th element
RemoveAt(seq, i) == SubSeq(seq, 1, i - 1) \o SubSeq(seq, i + 1, Len(seq))

\* Record.remove_phone
Record_remove_phone(self, contact_number) ==
    LET found == Matches(self, contact_number) IN
    IF found # {}
    THEN MethodReturn(None, [self EXCEPT !.phones = RemoveAt(@, First(found))],
                      <<Msg("Phone removed", <<contact_number>>)>>)
    ELSE MethodReturn(None, self, <<Msg("Phone not found", <<contact_number>>)>>)

Record_add_birthday_overwrite(self, birthday_str) ==
    LET b == Birthday(birthday_str) IN
    IF b.raised THEN MethodRaise(b.value, self)
    ELSE MethodReturn(None, [self EXCEPT !.birthday = b.value], <<>>)

\* Record.add_birthday
Record_add_birthday(self, birthday_str) ==
    IF self.birthday = None
    THEN LET b == Birthday(birthday_str) IN
         IF b.raised THEN MethodRaise(b.value, self)
         ELSE MethodReturn(None, [self EXCEPT !.birthday = b.value], <<>>)
    ELSE MethodRaise(Msg("A birthday is already set for . Current birthday: ",
                         <<self.name.value, BirthdayStr(self.birthday)>>), self)

\* Record.show_birthday
Record_show_birthday(self) ==
    IF self.birthday # None
    THEN Msg("", <<BirthdayStr(self.birthday)>>)
    ELSE Msg("No birthday set for ", <<self.name.value>>)

(***************************************************************************)
(* AddressBook: a UserDict, whose data keeps its items in insertion order  *)
(***************************************************************************)
\* AddressBook()
EmptyBook == [data |-> <<>>]

Keys(b) == {b.data[i].key : i \in 1..Len(b.data)}

\* the position of the item of key k
Pos(b, k) == CHOOSE i \in 1..Len(b.data) : b.data[i].key = k

\* self.data[k]
Get(b, k) == b.data[Pos(b, k)].value

\* self[key] = value: a new key goes last, a key already there keeps its place
SetItem(b, key, value) ==
    IF key \in Keys(b)
    THEN [b EXCEPT !.data[Pos(b, key)].value = value]
    ELSE [b EXCEPT !.data = Append(@, [key |-> key, value |-> value])]

\* AddressBook.__str__
RECURSIVE JoinRecords(_)
JoinRecords(items) ==
    IF Len(items) = 0 THEN <<>>
    ELSE <<RecordStr(items[1].value)>> \o JoinRecords(Tail(items))

BookStr(b) == IF Len(b.data) = 0 THEN <<Msg("No records", <<>>)>> ELSE JoinRecords(b.data)

add_record_first(b, record_to_add) ==
    IF Len(b.data) = 0 THEN SetItem(b, record_to_add.name.value, record_to_add)
    ELSE SetItem(b, b.data[1].key, record_to_add)

\* AddressBook.add_record
add_record(b, record_to_add) == SetItem(b, record_to_add.name.value, record_to_add)

\* AddressBook.find
find(b, contact_name) == IF contact_name \in Keys(b) THEN Get(b, contact_name) ELSE None

\* AddressBook.delete: the book it leaves and the line it prints
delete(b, contact_name) ==
    IF contact_name \in Keys(b)
    THEN [book |-> [b EXCEPT !.data = RemoveAt(@, Pos(b, contact_name))],
          printed |-> <<Msg("Contact deleted", <<contact_name>>)>>]
    ELSE [book |-> b, printed |-> <<Msg("Contact not found", <<contact_name>>)>>]

\* the loop of get_upcoming_birthdays over the items from position i on, with
\* the list built so far; a raise inside the loop ends the call
RECURSIVE UpcomingFrom(_, _, _, _, _)
UpcomingFrom(b, i, days, today, upcoming_birthdays) ==
    IF i > Len(b.data) THEN Return(upcoming_birthdays)
    ELSE LET record == b.data[i].value IN
         IF record.birthday = None
         THEN UpcomingFrom(b, i + 1, days, today, upcoming_birthdays)
         ELSE LET birthday_this_year == ReplaceYear(record.birthday.value, today.year) IN
              IF birthday_this_year.raised THEN birthday_this_year
              ELSE LET days_until_birthday == DaysBetween(birthday_this_year.value, today) IN
                   IF 0 <= days_until_birthday /\ days_until_birthday < days
                   THEN UpcomingFrom(b, i + 1, days, today, Append(upcoming_birthdays, record))
                   ELSE UpcomingFrom(b, i + 1, days, today, upcoming_birthdays)

get_upcoming_birthdays_inclusive(b, days, today) == UpcomingFrom(b, 1, days + 1, today, <<>>)

\* AddressBook.get_upcoming_birthdays, today being datetime.today().date()
get_upcoming_birthdays(b, days, today) == UpcomingFrom(b, 1, days, today, <<>>)

\* the default of get_upcoming_birthdays' days
DefaultDays == 7

(***************************************************************************)
(* Command handlers                                                        *)
(*                                                                         *)
(* A handler's outcome: raised and value as above, book the AddressBook as *)
(* the call leaves it (a Record found in the book is mutated in place),    *)
(* printed the lines printed during the call.                              *)
(***************************************************************************)
HandlerReturn(v, b, printed) ==
    [raised |-> FALSE, value |-> v, book |-> b, printed |-> printed]

HandlerRaise(e, b) ==
    [raised |-> TRUE, value |-> e, book |-> b, printed |-> <<>>]

\* "a, b, *_ = args" with too few values
UnpackError == Msg("not enough values to unpack", <<>>)

\* the book after the Record stored under key was mutated in place into rec
Mutated(b, key, rec) == [b EXCEPT !.data[Pos(b, key)].value = rec]

input_error_uncaught(r) == r

\* input_error: the decorated handler returns str(e) where the handler raises
input_error(r) == IF r.raised THEN [r EXCEPT !.raised = FALSE] ELSE r

add_contact_replace(args, b) ==
    input_error(
        IF Len(args) < 2 THEN HandlerRaise(UnpackError, b)
        ELSE LET name == args[1]
                 phone == args[2]
                 made == Record(name)
             IN  IF made.raised THEN HandlerRaise(made.value, b)
                 ELSE LET added == Record_add_phone(made.value, phone)
                          message == IF find(b, name) = None
                                     THEN Msg("Contact added.", <<>>)
                                     ELSE Msg("Contact updated.", <<>>)
                      IN  IF added.raised THEN HandlerRaise(added.value, b)
                          ELSE HandlerReturn(message, add_record(b, added.self), <<>>))

\* add_contact
add_contact(args, b) ==
    input_error(
        IF Len(args) < 2 THEN HandlerRaise(UnpackError, b)
        ELSE LET name == args[1]
                 phone == args[2]
                 found == find(b, name)
                 made == Record(name)
             IN  IF found = None /\ made.raised THEN HandlerRaise(made.value, b)
                 ELSE LET record == IF found = None THEN made.value ELSE found
                          b1 == IF found = None THEN add_record(b, record) ELSE b
                          message == IF found = None
                                     THEN Msg("Contact added.", <<>>)
                                     ELSE Msg("Contact updated.", <<>>)
                      IN  IF Len(phone) > 0
                          THEN LET added == Record_add_phone(record, phone) IN
                               IF added.raised THEN HandlerRaise(added.value, b1)
                               ELSE HandlerReturn(message,
                                        Mutated(b1, record.name.value, added.self), <<>>)
                          ELSE HandlerReturn(message, b1, <<>>))

\* add_birthday
add_birthday(args, b) ==
    input_error(
        IF Len(args) < 2 THEN HandlerRaise(UnpackError, b)
        ELSE LET name == args[1]
                 birthday_str == args[2]
                 record == find(b, name)
             IN  IF record = None
                 THEN HandlerReturn(Msg("Contact not found.", <<name>>), b, <<>>)
                 ELSE LET set == Record_add_birthday(record, birthday_str) IN
                      IF set.raised THEN HandlerRaise(set.value, b)
                      ELSE HandlerReturn(Msg("Birthday added for .", <<name>>),
                                         Mutated(b, name, set.self), <<>>))

\* show_birthday
show_birthday(args, b) ==
    input_error(
        IF Len(args) < 1 THEN HandlerRaise(UnpackError, b)
        ELSE LET name == args[1]
                 record == find(b, name)
             IN  IF record = None
                 THEN HandlerReturn(Msg("Contact not found.", <<name>>), b, <<>>)
                 ELSE HandlerReturn(Record_show_birthday(record), b, <<>>))

\* str(record) of each record of a list
RECURSIVE RecordStrs(_)
RecordStrs(records) ==
    IF Len(records) = 0 THEN <<>>
    ELSE <<RecordStr(records[1])>> \o RecordStrs(Tail(records))

\* birthdays, today being the day of the call
birthdays(b, today) ==
    input_error(
        LET upcoming_birthdays == get_upcoming_birthdays(b, DefaultDays, today) IN
        IF upcoming_birthdays.raised THEN HandlerRaise(upcoming_birthdays.value, b)
        ELSE IF Len(upcoming_birthdays.value) = 0
             THEN HandlerReturn(Msg("No upcoming birthdays.", <<>>), b, <<>>)
             ELSE HandlerReturn([text |-> "records", args |-> <<>>,
                                 lines |-> RecordStrs(upcoming_birthdays.value)], b, <<>>))

\* edit_phone
edit_phone(args, b) ==
    input_error(
        IF Len(args) < 3 THEN HandlerRaise(UnpackError, b)
        ELSE LET name == args[1]
                 old_phone == args[2]
                 new_phone == args[3]
                 record == find(b, name)
             IN  IF record = None
                 THEN HandlerReturn(Msg("Contact not found.", <<name>>), b, <<>>)
                 ELSE LET edited == Record_edit_phone(record, old_phone, new_phone) IN
                      HandlerReturn(Msg("Phone number updated for .", <<name>>),
                                    Mutated(b, name, edited.self), edited.printed))

\* show_phone
show_phone(args, b) ==
    input_error(
        IF Len(args) < 1 THEN HandlerRaise(UnpackError, b)
        ELSE LET name == args[1]
                 record == find(b, name)
             IN  IF record = None
                 THEN HandlerReturn(Msg("Contact not found.", <<name>>), b, <<>>)
                 ELSE HandlerReturn(Msg("Phones for : ", <<name, JoinPhones(record.phones)>>),
                                    b, <<>>))

(***************************************************************************)
(* Persistence                                                             *)
(*                                                                         *)
(* pickle.dump writes the object graph as a flat stream: an opcode and the *)
(* attribute values of each object, the items of a dict in their order,    *)
(* strings as they are, numbers in decimal, a date as the four bytes of    *)
(* its state (year high, year low, month, day).  pickle.load rebuilds the  *)
(* objects from the stream without calling any __init__.                   *)
(***************************************************************************)
OpDict == <<"d">>

OpObject == <<"o">>

OpDate == <<"D">>

OpNone == <<"N">>

OpStop == <<".">>

\* a number in decimal
Dec(n) == Pad(n, 1)

pickle_date_lowbyte(d) ==
    <<OpDate, Dec(d.year % 256), Dec(d.year % 256), Dec(d.month), Dec(d.day)>>

\* date.__reduce__
pickle_date(d) ==
    <<OpDate, Dec(d.year \div 256), Dec(d.year % 256), Dec(d.month), Dec(d.day)>>

RECURSIVE pickle_phones(_)
pickle_phones(phones) ==
    IF Len(phones) = 0 THEN <<>>
    ELSE <<phones[1].value>> \o pickle_phones(Tail(phones))

pickle_record(rec) ==
    <<OpObject, rec.name.value, Dec(Len(rec.phones))>>
    \o pickle_phones(rec.phones)
    \o (IF rec.birthday = None THEN <<OpNone>> ELSE pickle_date(rec.birthday.value))

RECURSIVE pickle_items(_)
pickle_items(items) ==
    IF Len(items) = 0 THEN <<>>
    ELSE <<items[1].key>> \o pickle_record(items[1].value) \o pickle_items(Tail(items))

\* pickle.dump(book, f): the bytes written
pickle_dump(b) == <<OpDict, Dec(Len(b.data))>> \o pickle_items(b.data) \o <<OpStop>>

\* a parse step's outcome: the value read and the position after it
Parsed(v, pos) == [raised |-> FALSE, value |-> v, pos |-> pos]

Unpickling == [raised |-> TRUE, value |-> Msg("pickle data was truncated", <<>>), pos |-> 0]

unpickle_date(blob, pos) ==
    IF pos + 3 > Len(blob) \/ \E k \in 0..3 : ~isdigit(blob[pos + k]) THEN Unpickling
    ELSE Parsed(Field([year |-> IntOf(blob[pos]) * 256 + IntOf(blob[pos + 1]),
                       month |-> IntOf(blob[pos + 2]),
                       day |-> IntOf(blob[pos + 3])]), pos + 4)

unpickle_record(blob, pos) ==
    IF pos + 2 > Len(blob) \/ blob[pos] # OpObject \/ ~isdigit(blob[pos + 2])
    THEN Unpickling
    ELSE LET n == IntOf(blob[pos + 2])
             after == pos + 3 + n
         IN  IF after > Len(blob) THEN Unpickling
             ELSE LET phones == [i \in 1..n |-> Field(blob[pos + 2 + i])]
                      bday == IF blob[after] = OpNone THEN Parsed(None, after + 1)
                              ELSE IF blob[after] = OpDate THEN unpickle_date(blob, after + 1)
                              ELSE Unpickling
                  IN  IF bday.raised THEN Unpickling
                      ELSE Parsed([name |-> Field(blob[pos + 1]), phones |-> phones,
                                   birthday |-> bday.value], bday.pos)

RECURSIVE unpickle_items(_, _, _, _)
unpickle_items(blob, pos, n, items) ==
    IF n = 0
    THEN (IF pos = Len(blob) /\ blob[pos] = OpStop
          THEN Return([data |-> items]) ELSE Raise(Unpickling.value))
    ELSE IF pos + 1 > Len(blob) THEN Raise(Unpickling.value)
    ELSE LET rec == unpickle_record(blob, pos + 1) IN
         IF rec.raised THEN Raise(Unpickling.value)
         ELSE unpickle_items(blob, rec.pos, n - 1,
                             Append(items, [key |-> blob[pos], value |-> rec.value]))

\* pickle.load(f): the object read, or an UnpicklingError
pickle_load(blob) ==
    IF Len(blob) < 2 \/ blob[1] # OpDict \/ ~isdigit(blob[2]) THEN Raise(Unpickling.value)
    ELSE unpickle_items(blob, 3, IntOf(blob[2]), <<>>)

\* the file addressbook.pkl: absent, or holding bytes
NoFile == [exists |-> FALSE, bytes |-> <<>>]

File(bytes) == [exists |-> TRUE, bytes |-> bytes]

save_data_keep(b, file) == file

\* save_data: the file it leaves
save_data(b, file) == File(pickle_dump(b))

\* load_data: FileNotFoundError alone is handled
load_data(file) == IF ~file.exists THEN Return(EmptyBook) ELSE pickle_load(file.bytes)

(***************************************************************************)
(* The command loop                                                        *)
(***************************************************************************)
Word_close == <<"c", "l", "o", "s", "e">>

Word_exit == <<"e", "x", "i", "t">>

Word_hello == <<"h", "e", "l", "l", "o">>

Word_add == <<"a", "d", "d">>

Word_change == <<"c", "h", "a", "n", "g", "e">>

Word_phone == <<"p", "h", "o", "n", "e">>

Word_all == <<"a", "l", "l">>

Word_add_birthday == <<"a", "d", "d", "-", "b", "i", "r", "t", "h", "d", "a", "y">>

Word_show_birthday == <<"s", "h", "o", "w", "-", "b", "i", "r", "t", "h", "d", "a", "y">>

Word_birthdays == <<"b", "i", "r", "t", "h", "d", "a", "y", "s">>

\* the first position from i on where s holds a space (is_space) or none, or Len(s) + 1
RECURSIVE Scan(_, _, _)
Scan(s, i, is_space) ==
    IF i > Len(s) \/ ((s[i] = " ") = is_space) THEN i ELSE Scan(s, i + 1, is_space)

\* the words of s from position i on
RECURSIVE WordsFrom(_, _)
WordsFrom(s, i) ==
    LET start == Scan(s, i, FALSE)
        end == Scan(s, start, TRUE)
    IN  IF start > Len(s) THEN <<>>
        ELSE <<SubSeq(s, start, end - 1)>> \o WordsFrom(s, end)

\* parse_input: user_input.split()
parse_input(user_input) == WordsFrom(user_input, 1)

(***************************************************************************)
(* The inputs of the modelled runs                                         *)
(***************************************************************************)
Ann == <<"A", "n", "n">>

Bob == <<"B", "o", "b">>

Al == <<"A", "l">>

P1 == <<"1", "2", "3", "4", "5", "6", "7", "8", "9", "0">>

P2 == <<"0", "9", "8", "7", "6", "5", "4", "3", "2", "1">>

Short == <<"1", "2", "3", "4", "5">>

Alpha == <<"1", "2", "3", "4", "5", "a", "b", "c", "d", "e">>

D_15_03_1990 == <<"1", "5", ".", "0", "3", ".", "1", "9", "9", "0">>

D_15_3_1990 == <<"1", "5", ".", "3", ".", "1", "9", "9", "0">>

D_29_02_2024 == <<"2", "9", ".", "0", "2", ".", "2", "0", "2", "4">>

D_01_01_2000 == <<"0", "1", ".", "0", "1", ".", "2", "0", "0", "0">>

D_29_02_2023 == <<"2", "9", ".", "0", "2", ".", "2", "0", "2", "3">>

D_iso == <<"1", "9", "9", "0", "-", "0", "3", "-", "1", "5">>

Word_foo == <<"f", "o", "o">>

\* two names the program accepts and one it rejects
Names == {Ann, Bob, Al}

ValidNames == {Ann, Bob}

\* two phones the program accepts, one too short, one of ten characters not all digits
Phones == {P1, P2, Short, Alpha}

EditPhones == {P1, P2, Short}

\* dates of the calendar (one written with a one-digit month, one a leap day),
\* a day that is none, and a date in another format
Dates == {D_15_03_1990, D_15_3_1990, D_29_02_2024, D_01_01_2000, D_29_02_2023, D_iso}

Day(y, m, d) == [year |-> y, month |-> m, day |-> d]

\* the days on which the birthdays command is entered
Todays ==
    {Day(2023, 3, 15), Day(2023, 3, 16), Day(2023, 3, 8), Day(2023, 3, 9),
     Day(2023, 12, 28), Day(2024, 2, 27)}

\* the words of a line joined by single spaces
RECURSIVE Line(_)
Line(words) ==
    IF Len(words) = 0 THEN <<>>
    ELSE IF Len(words) = 1 THEN words[1]
    ELSE words[1] \o <<" ">> \o Line(Tail(words))

\* Ann is given every phone and date; Bob one phone and one date, so that a
\* second Record is there to be left alone
Lines ==
    {Line(<<Word_add, Ann, p>>) : p \in Phones}
    \cup {Line(<<Word_add, n, p>>) : n \in {Bob, Al}, p \in {P1, Short}}
    \cup {Line(<<Word_add, Ann>>), Line(<<Word_add>>)}
    \cup {Line(<<Word_change, Ann, o, p>>) : o \in {P1, P2}, p \in EditPhones}
    \cup {Line(<<Word_change, Ann, Short, P1>>), Line(<<Word_change, Bob, P2, P1>>)}
    \cup {Line(<<Word_change, Al, P1, P2>>), Line(<<Word_change, Ann, P1>>)}
    \cup {Line(<<Word_phone, n>>) : n \in Names}
    \cup {Line(<<Word_phone>>)}
    \cup {Line(<<Word_add_birthday, Ann, d>>) : d \in Dates}
    \cup {Line(<<Word_add_birthday, Bob, D_01_01_2000>>)}
    \cup {Line(<<Word_add_birthday, Al, D_15_03_1990>>), Line(<<Word_add_birthday, Ann>>)}
    \cup {Line(<<Word_show_birthday, n>>) : n \in ValidNames}
    \cup {Line(<<Word_show_birthday>>)}
    \cup {Word_all, Word_birthdays, Word_hello, Word_close, Word_exit}
    \cup {<<>>, Word_foo, <<" ">> \o Line(<<Word_phone, Ann>>) \o <<" ", " ">>}

\* a book an earlier run of the program saved
SavedBook ==
    add_birthday(<<Ann, D_15_03_1990>>, add_contact(<<Ann, P1>>, EmptyBook).book).book

\* the file at the start: absent, saved by an earlier run, or cut short
InitialFiles ==
    {NoFile, File(pickle_dump(SavedBook)), File(SubSeq(pickle_dump(SavedBook), 1, 4))}

\* parse_input of each line the runs enter
Words == [user_input \in Lines |-> parse_input(user_input)]

\* "command, *args = parse_input(user_input)": on an empty line the unpacking
\* raises ValueError and command is None, which matches no case but the last;
\* no word is empty, so the empty string stands for that None
Command(user_input) ==
    IF Len(Words[user_input]) = 0 THEN <<>> ELSE Words[user_input][1]

Args(user_input) ==
    IF Len(Words[user_input]) = 0 THEN <<>> ELSE Tail(Words[user_input])

\* the phones held by all the Records of a book
RECURSIVE TotalPhones(_)
TotalPhones(items) ==
    IF Len(items) = 0 THEN 0
    ELSE Len(items[1].value.phones) + TotalPhones(Tail(items))

Commands ==
    {Word_close, Word_exit, Word_hello, Word_add, Word_change, Word_phone, Word_all,
     Word_add_birthday, Word_show_birthday, Word_birthdays}

\* what one turn of the loop leaves on the console
Console(user_input, ret, printed) ==
    [user_input |-> user_input, ret |-> ret, printed |-> printed]

\* the rest of a turn of the loop after the handler's outcome r: the result is
\* printed, and the next turn begins with save_data before input() is reached
Turn(user_input, r) ==
    IF r.raised
    THEN /\ pc' = "crashed"
         /\ book' = r.book
         /\ out' = Console(user_input, None, r.printed \o <<r.value>>)
         /\ UNCHANGED store
    ELSE /\ pc' = "input"
         /\ book' = r.book
         /\ store' = save_data(r.book, store)
         /\ out' = Console(user_input, r.value, r.printed \o <<r.value>>)

\* a turn that calls no handler and prints text
Say(user_input, text) ==
    /\ pc' = "input"
    /\ store' = save_data(book, store)
    /\ out' = Console(user_input, None, <<Msg(text, <<>>)>>)
    /\ UNCHANGED book

\* main, up to the first input(): load_data (an error of pickle.load ends the
\* program there), the greeting, the first save_data
Start ==
    /\ pc = "start"
    /\ LET loaded == load_data(store) IN
       IF loaded.raised
       THEN /\ pc' = "load_failed"
            /\ out' = Console(<<>>, None, <<loaded.value>>)
            /\ UNCHANGED <<book, store>>
       ELSE /\ pc' = "input"
            /\ book' = loaded.value
            /\ store' = save_data(loaded.value, store)
            /\ out' = Console(<<>>, None, <<Msg("Welcome to the assistant bot!", <<>>)>>)

\* case "close" | "exit"
CmdExit(user_input) ==
    /\ pc = "input"
    /\ Command(user_input) \in {Word_close, Word_exit}
    /\ pc' = "done"
    /\ out' = Console(user_input, None, <<Msg("Good bye!", <<>>)>>)
    /\ UNCHANGED <<book, store>>

\* case "hello"
CmdHello(user_input) ==
    /\ pc = "input"
    /\ Command(user_input) = Word_hello
    /\ Say(user_input, "How can I help you?")

\* case "add"
CmdAdd(user_input) ==
    /\ pc = "input"
    /\ Command(user_input) = Word_add
    /\ LET r == add_contact(Args(user_input), book) IN
       /\ TotalPhones(r.book.data) <= MaxPhones
       /\ Turn(user_input, r)

\* case "change"
CmdChange(user_input) ==
    /\ pc = "input"
    /\ Command(user_input) = Word_change
    /\ Turn(user_input, edit_phone(Args(user_input), book))

\* case "phone"
CmdPhone(user_input) ==
    /\ pc = "input"
    /\ Command(user_input) = Word_phone
    /\ Turn(user_input, show_phone(Args(user_input), book))

\* case "all": print(book)
CmdAll(user_input) ==
    /\ pc = "input"
    /\ Command(user_input) = Word_all
    /\ pc' = "input"
    /\ store' = save_data(book, store)
    /\ out' = Console(user_input, None, BookStr(book))
    /\ UNCHANGED book

\* case "add-birthday"
CmdAddBirthday(user_input) ==
    /\ pc = "input"
    /\ Command(user_input) = Word_add_birthday
    /\ Turn(user_input, add_birthday(Args(user_input), book))

\* case "show-birthday"
CmdShowBirthday(user_input) ==
    /\ pc = "input"
    /\ Command(user_input) = Word_show_birthday
    /\ Turn(user_input, show_birthday(Args(user_input), book))

\* case "birthdays", entered on the day today
CmdBirthdays(user_input, today) ==
    /\ pc = "input"
    /\ Command(user_input) = Word_birthdays
    /\ Turn(user_input, birthdays(book, today))

\* case _
CmdInvalid(user_input) ==
    /\ pc = "input"
    /\ Command(user_input) \notin Commands
    /\ Say(user_input, "Invalid command.")

(***************************************************************************)
(* The program: main                                                       *)
(***************************************************************************)
Init ==
    /\ pc = "start"
    /\ book = EmptyBook
    /\ store \in InitialFiles
    /\ out = Console(<<>>, None, <<>>)

\* the lines that begin with each command word, and the lines that begin with none
Entering == [word \in Commands |-> {user_input \in Lines : Command(user_input) = word}]

OtherLines == {user_input \in Lines : Command(user_input) \notin Commands}

Next ==
    \/ Start
    \/ \E user_input \in Entering[Word_close] \cup Entering[Word_exit] : CmdExit(user_input)
    \/ \E user_input \in Entering[Word_hello] : CmdHello(user_input)
    \/ \E user_input \in Entering[Word_add] : CmdAdd(user_input)
    \/ \E user_input \in Entering[Word_change] : CmdChange(user_input)
    \/ \E user_input \in Entering[Word_phone] : CmdPhone(user_input)
    \/ \E user_input \in Entering[Word_all] : CmdAll(user_input)
    \/ \E user_input \in Entering[Word_add_birthday] : CmdAddBirthday(user_input)
    \/ \E user_input \in Entering[Word_show_birthday] : CmdShowBirthday(user_input)
    \/ \E user_input \in Entering[Word_birthdays], today \in Todays :
          CmdBirthdays(user_input, today)
    \/ \E user_input \in OtherLines : CmdInvalid(user_input)

Spec == Init /\ [][Next]_vars

(***************************************************************************)
(* The classes used directly: any sequence of calls of the methods of      *)
(* Record and AddressBook and of the handlers on one AddressBook           *)
(***************************************************************************)
\* what a call leaves to look at: the method, its arguments, its outcome
Called(method, args, ret) == [call |-> method, args |-> args, ret |-> ret]

\* a call of a Record method on the Record stored under name
OnRecord(name, method, args, r) ==
    /\ pc = "api"
    /\ name \in Keys(book)
    /\ book' = Mutated(book, name, r.self)
    /\ out' = Called(method, <<name>> \o args, [raised |-> r.raised, value |-> r.value,
                                                printed |-> r.printed])
    /\ UNCHANGED <<pc, store>>

\* book.add_record(Record(name))
CallAddRecord(name) ==
    /\ pc = "api"
    /\ LET made == Record(name) IN
       /\ book' = IF made.raised THEN book ELSE add_record(book, made.value)
       /\ out' = Called("add_record", <<name>>, [raised |-> made.raised])
    /\ UNCHANGED <<pc, store>>

CallAddPhone(name, phone) ==
    /\ TotalPhones(book.data) < MaxPhones
    /\ OnRecord(name, "add_phone", <<phone>>, Record_add_phone(find(book, name), phone))

CallEditPhone(name, old, new) ==
    OnRecord(name, "edit_phone", <<old, new>>, Record_edit_phone(find(book, name), old, new))

CallRemovePhone(name, phone) ==
    OnRecord(name, "remove_phone", <<phone>>, Record_remove_phone(find(book, name), phone))

CallFindPhone(name, phone) ==
    OnRecord(name, "find_phone", <<phone>>,
             MethodReturn(Record_find_phone(find(book, name), phone), find(book, name), <<>>))

CallAddBirthday(name, birthday_str) ==
    OnRecord(name, "add_birthday", <<birthday_str>>,
             Record_add_birthday(find(book, name), birthday_str))

CallShowBirthday(name) ==
    OnRecord(name, "show_birthday", <<>>,
             MethodReturn(Record_show_birthday(find(book, name)), find(book, name), <<>>))

CallDelete(name) ==
    /\ pc = "api"
    /\ book' = delete(book, name).book
    /\ out' = Called("delete", <<name>>, [printed |-> delete(book, name).printed])
    /\ UNCHANGED <<pc, store>>

CallUpcoming(days, today) ==
    /\ pc = "api"
    /\ out' = Called("get_upcoming_birthdays", [days |-> days, today |-> today],
                     get_upcoming_birthdays(book, days, today))
    /\ UNCHANGED <<book, pc, store>>

\* a handler called with the arguments of a line
CallHandler(user_input) ==
    /\ pc = "api"
    /\ Command(user_input) \in {Word_add, Word_change, Word_add_birthday}
    /\ LET r == IF Command(user_input) = Word_add
                THEN add_contact(Args(user_input), book)
                ELSE IF Command(user_input) = Word_change
                THEN edit_phone(Args(user_input), book)
                ELSE add_birthday(Args(user_input), book)
       IN  /\ TotalPhones(r.book.data) <= MaxPhones
           /\ book' = r.book
           /\ out' = Called("handler", user_input, [raised |-> r.raised, value |-> r.value])
    /\ UNCHANGED <<pc, store>>

\* the window lengths asked for: the default and a shorter one
DaysAsked == {1, DefaultDays}

ApiInit ==
    /\ pc = "api"
    /\ book = EmptyBook
    /\ store = NoFile
    /\ out = Called("AddressBook", <<>>, None)

\* the lines whose arguments the handlers are called with
HandlerLines ==
    {Line(<<Word_add, Ann, P1>>), Line(<<Word_add, Bob, Short>>), Line(<<Word_add, Al, P1>>),
     Line(<<Word_change, Ann, P1, Short>>), Line(<<Word_add_birthday, Ann, D_15_03_1990>>)}

\* the birthdays given to each name
BirthdaysOf(name) ==
    IF name = Ann THEN {D_15_03_1990, D_29_02_2024, D_iso} ELSE {D_01_01_2000}

ApiNext ==
    \/ \E name \in Names : CallAddRecord(name)
    \/ \E name \in ValidNames, phone \in {P1, Short} : CallAddPhone(name, phone)
    \/ \E name \in ValidNames : CallEditPhone(name, P1, P2)
    \/ \E name \in ValidNames : CallRemovePhone(name, P1)
    \/ \E name \in ValidNames : CallFindPhone(name, P1)
    \/ \E name \in ValidNames : \E d \in BirthdaysOf(name) : CallAddBirthday(name, d)
    \/ \E name \in ValidNames : CallShowBirthday(name)
    \/ \E name \in Names : CallDelete(name)
    \/ \E days \in DaysAsked, today \in Todays : CallUpcoming(days, today)
    \/ \E user_input \in HandlerLines : CallHandler(user_input)

ApiSpec == ApiInit /\ [][ApiNext]_vars

(***************************************************************************)
(* Properties                                                              *)
(***************************************************************************)
\* a string of exactly ten decimal digits
TenDigits(p) == Len(p) = 10 /\ \A i \in 1..Len(p) : p[i] \in Digits

\* the turn of the loop being taken handles the command word
Handling(word) ==
    /\ pc = "input"
    /\ pc' = "input"
    /\ Command(out'.user_input) = word

\* C1: every phone stored in every Record of the AddressBook is a string of
\* exactly 10 decimal digits, whatever commands were entered; a change command
\* with a matching old phone and a malformed new one does not apply the edit.
C1_PhonesAreTenDigits ==
    \A i \in 1..Len(book.data) :
        \A j \in 1..Len(book.data[i].value.phones) :
            TenDigits(book.data[i].value.phones[j].value)

\* C2: a birthday, once set, is never changed by any later command, and an
\* add-birthday command for a Record whose birthday is set returns the
\* "already set" error instead of "Birthday added", whatever date it is given.
C2_BirthdaySetOnce ==
    [][/\ \A k \in Keys(book) :
              Get(book, k).birthday # None
              => k \in Keys(book') /\ Get(book', k).birthday = Get(book, k).birthday
       /\ (/\ Handling(Word_add_birthday)
           /\ Len(Args(out'.user_input)) >= 2
           /\ Args(out'.user_input)[1] \in Keys(book)
           /\ Get(book, Args(out'.user_input)[1]).birthday # None)
          => /\ out'.ret.text = "A birthday is already set for . Current birthday: "
             /\ out'.ret.text # "Birthday added for ."
             /\ book' = book]_vars

\* an add-birthday command was refused because the birthday was set already
C2_Witness ==
    /\ pc = "input"
    /\ Command(out.user_input) = Word_add_birthday
    /\ out.ret.text = "A birthday is already set for . Current birthday: "
    /\ Args(out.user_input)[2] # BirthdayStr(Get(book, Args(out.user_input)[1]).birthday)

\* C3: the add command with a valid name and a valid phone: for an absent name
\* it returns "Contact added." and the book gains a Record of that name whose
\* phones are exactly [phone]; for a present name it returns "Contact updated."
\* and the Record keeps its name, its earlier phones in their order and its
\* birthday, with phone appended last; every other Record is unchanged.
C3_AddIsUpsertInPlace ==
    [][(/\ Handling(Word_add)
        /\ Len(Args(out'.user_input)) >= 2
        /\ Len(Args(out'.user_input)[1]) >= 3
        /\ TenDigits(Args(out'.user_input)[2]))
       => LET name == Args(out'.user_input)[1]
              phone == Args(out'.user_input)[2]
          IN  /\ IF name \notin Keys(book)
                 THEN /\ out'.ret = Msg("Contact added.", <<>>)
                      /\ Keys(book') = Keys(book) \cup {name}
                      /\ Len(book'.data) = Len(book.data) + 1
                      /\ Get(book', name) = [name |-> [value |-> name],
                                             phones |-> <<[value |-> phone]>>,
                                             birthday |-> None]
                 ELSE /\ out'.ret = Msg("Contact updated.", <<>>)
                      /\ Keys(book') = Keys(book)
                      /\ Len(book'.data) = Len(book.data)
                      /\ Get(book', name).name = Get(book, name).name
                      /\ Get(book', name).birthday = Get(book, name).birthday
                      /\ Get(book', name).phones =
                             Get(book, name).phones \o <<[value |-> phone]>>
              /\ \A k \in Keys(book) \ {name} : Get(book', k) = Get(book, k)]_vars

\* "Contact updated." for a Record that had a phone and a birthday, beside another Record
C3_Witness ==
    /\ pc = "input"
    /\ Command(out.user_input) = Word_add
    /\ out.ret = Msg("Contact updated.", <<>>)
    /\ Len(book.data) = 2
    /\ Get(book, Ann).phones = <<[value |-> P1], [value |-> P2]>>
    /\ Get(book, Ann).birthday # None

\* C4: the change command on an existing contact: when old-phone is not among
\* the contact's phones, the phones are left unchanged and the result is a
\* not-found message, not the update confirmation.
C4_ChangeReportsNotFound ==
    [][(/\ Handling(Word_change)
        /\ Len(Args(out'.user_input)) >= 3
        /\ Args(out'.user_input)[1] \in Keys(book)
        /\ Matches(Get(book, Args(out'.user_input)[1]), Args(out'.user_input)[2]) = {})
       => /\ book' = book
          /\ out'.ret.text # "Phone number updated for ."]_vars

\* C5: whenever the loop waits for the next command, and when the program has
\* ended on exit or close, the file holds exactly the pickled in-memory book.
C5_StoreHoldsBook ==
    pc \in {"input", "done"} => store = File(pickle_dump(book))

\* the loop waits for a command after one that changed a book of two Records
C5_Witness ==
    /\ pc = "input"
    /\ out.ret = Msg("Contact updated.", <<>>)
    /\ Len(book.data) = 2
    /\ store.exists

\* C6: for every book the commands can reach, load_data after save_data yields
\* a book with the same keys and, under each key, the same name, the same
\* phones in the same order and the same birthday or none.
C6_RoundTrip ==
    LET loaded == load_data(save_data(book, store)) IN
    /\ ~loaded.raised
    /\ Len(loaded.value.data) = Len(book.data)
    /\ \A i \in 1..Len(book.data) :
          /\ loaded.value.data[i].key = book.data[i].key
          /\ loaded.value.data[i].value.name = book.data[i].value.name
          /\ loaded.value.data[i].value.phones = book.data[i].value.phones
          /\ loaded.value.data[i].value.birthday = book.data[i].value.birthday

\* a book of two Records, with a birthday and phones, one of them malformed
C6_Witness ==
    /\ pc = "input"
    /\ Len(book.data) = 2
    /\ \E i \in 1..2 :
          /\ book.data[i].value.birthday # None
          /\ Len(book.data[i].value.phones) = 2
          /\ \E j \in 1..2 : ~TenDigits(book.data[i].value.phones[j].value)

\* the day after t
NextDay(t) ==
    IF t.day < DaysInMonth(t.year, t.month) THEN [t EXCEPT !.day = @ + 1]
    ELSE IF t.month < 12 THEN [t EXCEPT !.month = @ + 1, !.day = 1]
    ELSE [year |-> t.year + 1, month |-> 1, day |-> 1]

\* the day n days after t
RECURSIVE PlusDays(_, _)
PlusDays(t, n) == IF n = 0 THEN t ELSE PlusDays(NextDay(t), n - 1)

\* the birthday b falls, in today's year, on today or on one of the days - 1 days after it
InWindow(b, today, days) ==
    \E n \in 0..(days - 1) :
        LET t == PlusDays(today, n) IN
        t.year = today.year /\ t.month = b.month /\ t.day = b.day

\* the Records of items, in their order, whose birthday is set and in the window
RECURSIVE WindowRecords(_, _, _)
WindowRecords(items, today, days) ==
    IF Len(items) = 0 THEN <<>>
    ELSE (IF /\ items[1].value.birthday # None
             /\ InWindow(items[1].value.birthday.value, today, days)
          THEN <<items[1].value>> ELSE <<>>)
         \o WindowRecords(Tail(items), today, days)

\* a Record's birthday is 29 February and today's year has no such day
LeapDayMissing(b, today) ==
    /\ ~IsLeap(today.year)
    /\ \E i \in 1..Len(b.data) :
          /\ b.data[i].value.birthday # None
          /\ b.data[i].value.birthday.value.month = 2
          /\ b.data[i].value.birthday.value.day = 29

C8_NoFailureReachesLoop ==
    /\ pc # "crashed"
    /\ pc = "done" => Command(out.user_input) \in {Word_close, Word_exit}
    /\ (/\ pc = "input"
        /\ Command(out.user_input) \in
               {Word_add, Word_change, Word_phone, Word_add_birthday,
                Word_show_birthday, Word_birthdays})
       => out.ret # None

\* birthdays entered in a year without 29 February, a Record's birthday being that day
C8_Witness ==
    /\ pc = "input"
    /\ Command(out.user_input) = Word_birthdays
    /\ out.ret = Msg("day is out of range for month", <<>>)

\* C9: every key of the book is the name of the Record it maps to, and that
\* name has at least 3 characters.
C9_KeyIsName ==
    \A i \in 1..Len(book.data) :
        /\ book.data[i].key = book.data[i].value.name.value
        /\ Len(book.data[i].value.name.value) >= 3

\* add_record has stored a second Record
C9_Witness ==
    /\ out.call = "add_record"
    /\ ~out.ret.raised
    /\ Len(book.data) = 2

\* C10: a command (add, change, add-birthday) that returns an error message
\* instead of its success message leaves the book as it was.
C10_ErrorLeavesBook ==
    [][(/\ \E word \in {Word_add, Word_change, Word_add_birthday} : Handling(word)
        /\ out'.ret.text \notin {"Contact added.", "Contact updated.",
                                 "Phone number updated for .", "Birthday added for ."})
       => book' = book]_vars

====
